---- MODULE Spec2Model ----
(***************************************************************************)
(* Control-flow-graph construction of mycfg.py: get_basic_blocks splits    *)
(* one function's instruction list into basic blocks, labels2blocks keys   *)
(* every block with a non-empty body by a tuple of label names, and        *)
(* create_cfg computes the successor list of every key plus START.         *)
(*                                                                         *)
(* An instruction is a record whose DOMAIN is the key set of the Python    *)
(* dict: 'op' in instr  is  "op" \in DOMAIN instr.  A Python tuple of      *)
(* label names is a sequence of strings.  An insertion-ordered dict is a   *)
(* sequence of <<key, value>> pairs (see DictSet).                         *)
(***************************************************************************)
EXTENDS Integers, Sequences, FiniteSets, TLC

VARIABLES instructions, pc, basic_blocks, label_block_map, cfg, err

vars == <<instructions, pc, basic_blocks, label_block_map, cfg, err>>

(* Longest instruction list explored. *)
MaxLen == 4

(***************************************************************************)
(* Constants of the program.                                               *)
(***************************************************************************)
TERMINATOR_OPS == {"jmp", "br", "ret"}

START == <<"START">>

TERM == <<"TERM">>

(* Python's None, the value get_label_alias returns when its loop ends     *)
(* without a return.  Every key of the map is a non-empty tuple, so the    *)
(* empty tuple stands for None without colliding with a key.               *)
None == <<>>

(***************************************************************************)
(* The inputs: instruction lists over operations and label markers.        *)
(***************************************************************************)
LabelNames == {"A", "block0", "START"}

(* jump-target sequences carried by jmp and br, well formed or not *)
JmpTargets == {<<>>, <<"A">>, <<"block0">>, <<"A", "block0">>}

BrTargets == {<<>>, <<"A">>, <<"A", "block0">>, <<"block0", "A">>}

Instrs ==
    {[op |-> "const"], [op |-> "ret"]}
    \cup {[label |-> l] : l \in LabelNames}
    \cup {[op |-> "jmp", labels |-> t] : t \in JmpTargets}
    \cup {[op |-> "br", labels |-> t] : t \in BrTargets}

InstrLists == UNION {[1..n -> Instrs] : n \in 0..MaxLen}

(***************************************************************************)
(* Python built-ins used by the program.                                   *)
(***************************************************************************)
Digit(d) ==
    CASE d = 0 -> "0" [] d = 1 -> "1" [] d = 2 -> "2" [] d = 3 -> "3"
      [] d = 4 -> "4" [] d = 5 -> "5" [] d = 6 -> "6" [] d = 7 -> "7"
      [] d = 8 -> "8" [] d = 9 -> "9"

RECURSIVE str(_)
(* str(n) of a non-negative int: its decimal digits *)
str(n) == IF n < 10 THEN Digit(n) ELSE str(n \div 10) \o Digit(n % 10)

(* label in label_set, for a tuple label_set *)
InTuple(x, t) == \E j \in 1..Len(t) : t[j] = x

(* block[1:] *)
Rest(s) == SubSeq(s, 2, Len(s))

(* block[-1] *)
Last(s) == s[Len(s)]

DictKeys(d) == [j \in 1..Len(d) |-> d[j][1]]

DictHas(d, k) == \E j \in 1..Len(d) : d[j][1] = k

(* d[k] = v: a new key goes to the end, an existing key keeps its position *)
(* and has its value replaced                                              *)
DictSet(d, k, v) ==
    IF DictHas(d, k)
    THEN [j \in 1..Len(d) |-> IF d[j][1] = k THEN <<k, v>> ELSE d[j]]
    ELSE Append(d, <<k, v>>)

DictGet(d, k) == d[CHOOSE j \in 1..Len(d) : d[j][1] = k][2]

(***************************************************************************)
(* get_basic_blocks                                                        *)
(***************************************************************************)
(* the  if 'op' in instr  statement of the loop body; st is the pair of    *)
(* locals [basic_blocks, block]                                            *)
OpStep(st, instr) ==
    IF "op" \in DOMAIN instr
    THEN IF instr.op \in TERMINATOR_OPS
         THEN [basic_blocks |-> Append(st.basic_blocks, Append(st.block, instr)),
               block |-> <<>>]
         ELSE [basic_blocks |-> st.basic_blocks, block |-> Append(st.block, instr)]
    ELSE st

(* LabelStep with the pending block left open when a label arrives: the   *)
(* marker is appended to it                                                *)
LabelStepKeepsOpen(st, instr) ==
    IF "label" \in DOMAIN instr
    THEN [basic_blocks |-> st.basic_blocks, block |-> Append(st.block, instr)]
    ELSE st

(* the  if 'label' in instr  statement of the loop body *)
LabelStep(st, instr) ==
    IF "label" \in DOMAIN instr
    THEN IF st.block = <<>>
         THEN [basic_blocks |-> st.basic_blocks, block |-> Append(st.block, instr)]
         ELSE [basic_blocks |-> Append(st.basic_blocks, st.block),
               block |-> <<instr>>]
    ELSE st

RECURSIVE BlocksLoop(_, _, _)
BlocksLoop(instrs, i, st) ==
    IF i > Len(instrs)
    THEN st
    ELSE BlocksLoop(instrs, i + 1, LabelStep(OpStep(st, instrs[i]), instrs[i]))

get_basic_blocks(instrs) ==
    LET st == BlocksLoop(instrs, 1, [basic_blocks |-> <<>>, block |-> <<>>])
    IN  IF st.block # <<>> THEN Append(st.basic_blocks, st.block)
        ELSE st.basic_blocks

(***************************************************************************)
(* labels2blocks                                                           *)
(***************************************************************************)
(* one iteration of the loop; st holds the locals label_block_map,         *)
(* unlabeled_index and carry_list                                          *)
ResolveStep(st, blk) ==
    LET first_instr == blk[1]
        labelled == "label" \in DOMAIN first_instr
        label == IF labelled THEN first_instr.label
                 ELSE "block" \o str(st.unlabeled_index)
        block == IF labelled THEN Rest(blk) ELSE blk
        index == IF labelled THEN st.unlabeled_index ELSE st.unlabeled_index + 1
    IN  IF block # <<>>
        THEN [label_block_map |->
                 DictSet(st.label_block_map, Append(st.carry_list, label), block),
              unlabeled_index |-> index,
              carry_list |-> <<>>]
        ELSE [label_block_map |-> st.label_block_map,
              unlabeled_index |-> index,
              carry_list |-> Append(st.carry_list, label)]

RECURSIVE ResolveLoop(_, _, _)
ResolveLoop(blocks, i, st) ==
    IF i > Len(blocks)
    THEN st
    ELSE ResolveLoop(blocks, i + 1, ResolveStep(st, blocks[i]))

labels2blocks(blocks) ==
    ResolveLoop(blocks, 1, [label_block_map |-> <<>>,
                            unlabeled_index |-> 0,
                            carry_list |-> <<>>]).label_block_map

(***************************************************************************)
(* get_label_alias                                                         *)
(***************************************************************************)
get_label_alias(map, label) ==
    IF \E j \in 1..Len(map) : InTuple(label, map[j][1])
    THEN LET first == CHOOSE j \in 1..Len(map) :
                          /\ InTuple(label, map[j][1])
                          /\ \A h \in 1..(j - 1) : ~InTuple(label, map[h][1])
         IN  map[first][1]
    ELSE None

(***************************************************************************)
(* create_cfg                                                              *)
(***************************************************************************)
(* FallThrough with the position off by one: the block's own key *)
FallThroughOffByOne(map, i) ==
    LET dest == IF i + 1 < Len(map) THEN <<DictKeys(map)[i + 1]>> ELSE <<>>
    IN  IF dest = <<>> THEN <<TERM>> ELSE dest

(* lines 99-102: the successor of a block that does not end in a           *)
(* terminator; i is the 0-based position of enumerate                      *)
FallThrough(map, i) ==
    LET dest == IF i + 1 < Len(map) THEN <<DictKeys(map)[i + 2]>> ELSE <<>>
    IN  IF dest = <<>> THEN <<TERM>> ELSE dest

(* the match statement: the successors of a block ending in a terminator,  *)
(* or the exception the statement raises                                   *)
TerminatorDest(map, last_instr) ==
    CASE last_instr.op = "jmp" ->
           IF Len(last_instr.labels) = 0
           THEN [err |-> "IndexError", dest |-> <<>>]
           ELSE [err |-> "none",
                 dest |-> <<get_label_alias(map, last_instr.labels[1])>>]
      [] last_instr.op = "br" ->
           [err |-> "none",
            dest |-> [j \in 1..Len(last_instr.labels) |->
                         get_label_alias(map, last_instr.labels[j])]]
      [] last_instr.op = "ret" ->
           [err |-> "none", dest |-> <<TERM>>]

(* one iteration of the loop over enumerate(label_block_map.items()) *)
CfgStep(map, i, st) ==
    LET label == map[i + 1][1]
        block == map[i + 1][2]
        last_instr == Last(block)
    IN  IF "op" \in DOMAIN last_instr /\ last_instr.op \in TERMINATOR_OPS
        THEN LET r == TerminatorDest(map, last_instr)
             IN  IF r.err # "none"
                 THEN [cfg |-> st.cfg, err |-> r.err]
                 ELSE [cfg |-> DictSet(st.cfg, label, r.dest), err |-> "none"]
        ELSE [cfg |-> DictSet(st.cfg, label, FallThrough(map, i)), err |-> "none"]

RECURSIVE CfgLoop(_, _, _)
CfgLoop(map, i, st) ==
    IF i >= Len(map) \/ st.err # "none"
    THEN st
    ELSE CfgLoop(map, i + 1, CfgStep(map, i, st))

(* the result: the dict returned, or the exception that ended the call *)
create_cfg(map) ==
    LET cfg0 == IF map # <<>>
                THEN DictSet(<<>>, START, <<DictKeys(map)[1]>>)
                ELSE DictSet(<<>>, START, <<TERM>>)
    IN  CfgLoop(map, 0, [cfg |-> cfg0, err |-> "none"])

(***************************************************************************)
(* The pipeline of the main block, for one function.                       *)
(***************************************************************************)
Init ==
    /\ instructions \in InstrLists
    /\ pc = "partition"
    /\ basic_blocks = <<>>
    /\ label_block_map = <<>>
    /\ cfg = <<>>
    /\ err = "none"

GetBasicBlocks ==
    /\ pc = "partition"
    /\ basic_blocks' = get_basic_blocks(instructions)
    /\ pc' = "resolve"
    /\ UNCHANGED <<instructions, label_block_map, cfg, err>>

Labels2Blocks ==
    /\ pc = "resolve"
    /\ label_block_map' = labels2blocks(basic_blocks)
    /\ pc' = "build"
    /\ UNCHANGED <<instructions, basic_blocks, cfg, err>>

CreateCfg ==
    /\ pc = "build"
    /\ LET r == create_cfg(label_block_map)
       IN  /\ err' = r.err
           /\ cfg' = IF r.err = "none" THEN r.cfg ELSE <<>>
    /\ pc' = "done"
    /\ UNCHANGED <<instructions, basic_blocks, label_block_map>>

Next == GetBasicBlocks \/ Labels2Blocks \/ CreateCfg

Spec == Init /\ [][Next]_vars

(***************************************************************************)
(* Vocabulary of the properties.                                           *)
(***************************************************************************)
IsOp(instr) == "op" \in DOMAIN instr

IsLabel(instr) == "label" \in DOMAIN instr

IsTerminator(instr) == IsOp(instr) /\ instr.op \in TERMINATOR_OPS

(* the blocks have been computed *)
Partitioned == pc \in {"resolve", "build", "done"}

(* the map has been computed *)
Resolved == pc \in {"build", "done"}

(* create_cfg returned a CFG *)
Returned == pc = "done" /\ err = "none"

(* create_cfg ended in an exception *)
Failed == pc = "done" /\ err # "none"

MapKeys == DictKeys(label_block_map)

MapBody(i) == label_block_map[i][2]

(* some key of the map has the label name among its aliases *)
Known(name) == \E i \in 1..Len(label_block_map) : InTuple(name, MapKeys[i])

(* the successors listed anywhere in the returned CFG *)
Successors ==
    UNION {{cfg[n][2][j] : j \in 1..Len(cfg[n][2])} : n \in 1..Len(cfg)}

(***************************************************************************)
(* C5. When every instruction is either an operation or a label marker,    *)
(* every block returned by get_basic_blocks is non-empty, has a label      *)
(* marker at most at index 0, and has a terminator only as last element.   *)
(***************************************************************************)
OpXorLabel == \A i \in 1..Len(instructions) :
                  IsOp(instructions[i]) # IsLabel(instructions[i])

C5_BlockShape ==
    (Partitioned /\ OpXorLabel) =>
        \A b \in 1..Len(basic_blocks) :
            LET block == basic_blocks[b]
            IN  /\ Len(block) >= 1
                /\ \A j \in 1..Len(block) : IsLabel(block[j]) => j = 1
                /\ \A j \in 1..Len(block) : IsTerminator(block[j]) => j = Len(block)

(* a label marker arrived while content was pending, and a labelled block  *)
(* was closed by a terminator                                              *)
C5_Witness ==
    /\ Partitioned /\ OpXorLabel
    /\ Len(basic_blocks) >= 2
    /\ \E b \in 2..Len(basic_blocks) :
           /\ ~IsTerminator(Last(basic_blocks[b - 1]))
           /\ IsLabel(basic_blocks[b][1])
           /\ Len(basic_blocks[b]) >= 3
           /\ IsTerminator(Last(basic_blocks[b]))

(***************************************************************************)
(* C7. In a returned CFG, the entry at position i of the map whose body    *)
(* does not end in a terminator has exactly one successor, the key at      *)
(* position i+1 when there is one and TERM otherwise; an entry whose body  *)
(* ends in ret has TERM as its only successor.                             *)
(***************************************************************************)
C7_FallThroughAndRet ==
    Returned =>
        \A i \in 1..Len(label_block_map) :
            LET last_instr == Last(MapBody(i))
            IN  /\ ~IsTerminator(last_instr) =>
                      /\ DictHas(cfg, MapKeys[i])
                      /\ DictGet(cfg, MapKeys[i]) =
                             IF i < Len(label_block_map)
                             THEN <<MapKeys[i + 1]>> ELSE <<TERM>>
                /\ (IsOp(last_instr) /\ last_instr.op = "ret") =>
                      /\ DictHas(cfg, MapKeys[i])
                      /\ DictGet(cfg, MapKeys[i]) = <<TERM>>

(* a block falls through to a following block, another falls off the end,  *)
(* and a third ends in ret                                                 *)
C7_Witness ==
    /\ Returned
    /\ Len(label_block_map) >= 3
    /\ \E i \in 1..(Len(label_block_map) - 1) :
           /\ ~IsTerminator(Last(MapBody(i)))
           /\ DictGet(cfg, MapKeys[i]) = <<MapKeys[i + 1]>>
    /\ \E i \in 1..Len(label_block_map) : Last(MapBody(i)).op = "ret"
    /\ ~IsTerminator(Last(MapBody(Len(label_block_map))))
    /\ DictGet(cfg, MapKeys[Len(label_block_map)]) = <<TERM>>

(***************************************************************************)
(* C1. When some block of the map ends in a jmp or br with a target that   *)
(* is in no key of the map, building the CFG fails: no CFG is returned     *)
(* and no successor is an absent value.                                    *)
(***************************************************************************)
UnresolvedTarget ==
    \E i \in 1..Len(label_block_map) :
        LET last_instr == Last(MapBody(i))
        IN  /\ IsOp(last_instr) /\ last_instr.op \in {"jmp", "br"}
            /\ \E j \in 1..Len(last_instr.labels) : ~Known(last_instr.labels[j])

C1_UnresolvedLabelFails ==
    (pc = "done" /\ UnresolvedTarget) => (Failed /\ None \notin Successors)

(***************************************************************************)
(* C9. When a block of the map ends in a br without exactly two targets,   *)
(* or in a jmp without exactly one target, building the CFG fails          *)
(* instead of returning a CFG.                                             *)
(***************************************************************************)
MalformedTerminator ==
    \E i \in 1..Len(label_block_map) :
        LET last_instr == Last(MapBody(i))
        IN  /\ IsOp(last_instr)
            /\ \/ last_instr.op = "br" /\ Len(last_instr.labels) # 2
               \/ last_instr.op = "jmp" /\ Len(last_instr.labels) # 1

C9_MalformedInstructionFails ==
    (pc = "done" /\ MalformedTerminator) => Failed

(***************************************************************************)
(* C2. In a returned CFG every node other than TERM has 1 or 2             *)
(* successors; it has 2 only when its block ends in a br, and then they    *)
(* are the resolved identities of the br's first and second target.        *)
(***************************************************************************)
C2_SuccessorArity ==
    Returned =>
        \A n \in 1..Len(cfg) :
            LET node == cfg[n][1]
                succs == cfg[n][2]
            IN  node # TERM =>
                  /\ Len(succs) \in {1, 2}
                  /\ Len(succs) = 2 =>
                        /\ DictHas(label_block_map, node)
                        /\ LET last_instr == Last(DictGet(label_block_map, node))
                           IN  /\ IsOp(last_instr) /\ last_instr.op = "br"
                               /\ Len(last_instr.labels) >= 2
                               /\ succs[1] = get_label_alias(label_block_map,
                                                             last_instr.labels[1])
                               /\ succs[2] = get_label_alias(label_block_map,
                                                             last_instr.labels[2])

(***************************************************************************)
(* C8. In a returned CFG, START has exactly one successor, the first key   *)
(* of the map, or TERM when the map is empty; the empty instruction list   *)
(* gives no block, an empty map and the CFG {START: [TERM]}.               *)
(***************************************************************************)
C8_StartSuccessor ==
    Returned =>
        /\ DictHas(cfg, START)
        /\ DictGet(cfg, START) =
               IF label_block_map # <<>> THEN <<MapKeys[1]>> ELSE <<TERM>>
        /\ instructions = <<>> =>
               /\ basic_blocks = <<>>
               /\ label_block_map = <<>>
               /\ cfg = << <<START, <<TERM>>>> >>

(***************************************************************************)
(* C10. When every jmp/br target is the name of a label marker of the      *)
(* list, the returned CFG is closed: every successor is TERM or a key of   *)
(* the CFG.                                                                *)
(***************************************************************************)
MarkerNames == {instructions[i].label :
                    i \in {h \in 1..Len(instructions) : IsLabel(instructions[h])}}

TargetsDefined ==
    \A i \in 1..Len(instructions) :
        (IsOp(instructions[i]) /\ instructions[i].op \in {"jmp", "br"}) =>
            \A j \in 1..Len(instructions[i].labels) :
                instructions[i].labels[j] \in MarkerNames

C10_Closed ==
    (Returned /\ TargetsDefined) =>
        \A n \in 1..Len(cfg) : \A j \in 1..Len(cfg[n][2]) :
            cfg[n][2][j] = TERM \/ DictHas(cfg, cfg[n][2][j])

(***************************************************************************)
(* The blocks of get_basic_blocks as labels2blocks reads them, and the     *)
(* key each block is meant to receive, stated from the block list alone.   *)
(***************************************************************************)
BlockLabelled(b) == IsLabel(basic_blocks[b][1])

(* the block minus its leading label marker *)
BlockBody(b) ==
    IF BlockLabelled(b) THEN Rest(basic_blocks[b]) ELSE basic_blocks[b]

(* the blocks with a non-empty body, in the order they occur *)
NonEmptyBlocks ==
    LET HasBody(b) == BlockBody(b) # <<>>
    IN  SelectSeq([b \in 1..Len(basic_blocks) |-> b], HasBody)

(* the label of block b: its marker's name, or "block<N>" for the N-th     *)
(* (from 0) block without a marker                                         *)
OwnLabel(b) ==
    IF BlockLabelled(b) THEN basic_blocks[b][1].label
    ELSE "block" \o str(Cardinality({h \in 1..(b - 1) : ~BlockLabelled(h)}))

(* first block of the run of label-only blocks that ends right before c *)
RunStart(c) ==
    CHOOSE r \in 1..c :
        /\ \A h \in r..(c - 1) : BlockBody(h) = <<>>
        /\ r = 1 \/ BlockBody(r - 1) # <<>>

(* the labels of the run of label-only blocks before c, then c's own *)
KeyOfBlock(c) ==
    [j \in 1..(c - RunStart(c) + 1) |-> OwnLabel(RunStart(c) + j - 1)]

RECURSIVE BlockStart(_)
(* position in the instruction list of the first instruction of block b *)
BlockStart(b) == IF b = 1 THEN 1 ELSE BlockStart(b - 1) + Len(basic_blocks[b - 1])

MarkerPositions(name) ==
    {p \in 1..Len(instructions) :
        IsLabel(instructions[p]) /\ instructions[p].label = name}

(* some operation follows position p *)
OpAfter(p) == \E q \in (p + 1)..Len(instructions) : IsOp(instructions[q])

(* the first block with a non-empty body at or after the marker at p *)
FirstBlockWithBodyFrom(p) ==
    LET b == CHOOSE h \in 1..Len(basic_blocks) : BlockStart(h) = p
    IN  CHOOSE c \in b..Len(basic_blocks) :
            /\ BlockBody(c) # <<>>
            /\ \A h \in b..(c - 1) : BlockBody(h) = <<>>

(***************************************************************************)
(* C6. labels2blocks returns exactly one entry per block with a non-empty  *)
(* body, in the order of those blocks: no entry overwrites another.        *)
(***************************************************************************)
C6_OneEntryPerBlock ==
    Resolved =>
        /\ Len(label_block_map) = Len(NonEmptyBlocks)
        /\ \A i \in 1..Len(label_block_map) :
               i <= Len(NonEmptyBlocks) => MapBody(i) = BlockBody(NonEmptyBlocks[i])

(***************************************************************************)
(* C3. After labels2blocks, the name of every label marker that is         *)
(* followed by some operation is a member of exactly one key of the map,   *)
(* and a name whose markers are all followed by no operation is a member   *)
(* of no key.                                                              *)
(***************************************************************************)
KeysWith(name) == {i \in 1..Len(label_block_map) : InTuple(name, MapKeys[i])}

C3_IdentityCoverage ==
    Resolved =>
        \A name \in MarkerNames :
            IF \E p \in MarkerPositions(name) : OpAfter(p)
            THEN Cardinality(KeysWith(name)) = 1
            ELSE KeysWith(name) = {}

(***************************************************************************)
(* C4. In a returned CFG, the successor of a block ending in jmp or br,    *)
(* for a target L defined by one label marker that some operation          *)
(* follows, is the key of the first block with a non-empty body at or      *)
(* after L's marker: the labels of the run of markers it closes, in        *)
(* source order.                                                           *)
(***************************************************************************)
TargetCount(instr) ==
    IF instr.op = "jmp"
    THEN (IF Len(instr.labels) >= 1 THEN 1 ELSE 0)
    ELSE Len(instr.labels)

C4_TargetResolution ==
    Returned =>
        \A b \in 1..Len(basic_blocks) :
            LET last_instr == Last(basic_blocks[b])
            IN  (IsOp(last_instr) /\ last_instr.op \in {"jmp", "br"}) =>
                  \A j \in 1..TargetCount(last_instr) :
                      LET L == last_instr.labels[j]
                      IN  (/\ Cardinality(MarkerPositions(L)) = 1
                           /\ \A p \in MarkerPositions(L) : OpAfter(p)) =>
                            LET p == CHOOSE q \in MarkerPositions(L) : TRUE
                                key == KeyOfBlock(b)
                            IN  /\ DictHas(cfg, key)
                                /\ Len(DictGet(cfg, key)) >= j
                                /\ DictGet(cfg, key)[j] =
                                       KeyOfBlock(FirstBlockWithBodyFrom(p))
====
